---------------------------- MODULE Spec2Model ----------------------------
(***************************************************************************)
(* The Flow webhook endpoint of tenancyflow: the request handler of        *)
(* api/flow.js and the handler with the health-check path (part_000,       *)
(* lines 9-83).  One request is one run of `handler`; the actions are the  *)
(* segments of the async function between its awaits.                      *)
(***************************************************************************)
EXTENDS Integers, Sequences, FiniteSets, TLC

VARIABLES req, env, h

vars == <<req, env, h>>

(***************************************************************************)
(* JavaScript values.  Every value is a record tagged with its type, so    *)
(* that values of different types can be compared.                         *)
(***************************************************************************)
Undefined == [t |-> "undefined", v |-> ""]
Null == [t |-> "null", v |-> ""]
Bool(b) == [t |-> "bool", v |-> IF b THEN "true" ELSE "false"]
Num(s) == [t |-> "num", v |-> s]
Str(s) == [t |-> "str", v |-> s]
Arr(n) == [t |-> "arr", n |-> n]
Obj(f) == [t |-> "obj", f |-> f]
EmptyObj == Obj(<< >>)

\* A compact JWE token: a string whose segments were produced by encrypting
\* the text pt for the holder of key; tag is FALSE when the ciphertext or the
\* authentication tag was altered after encryption.
Jwe(key, pt, tag) == [t |-> "str", jwe |-> [key |-> key, pt |-> pt, tag |-> tag]]

IsJwe(x) == "jwe" \in DOMAIN x

\* The string whose characters are those of a text (a body the transport hands
\* over undecoded).
StrOf(text) == [t |-> "str", chars |-> text]

IsStrOf(x) == "chars" \in DOMAIN x

\* ToBoolean: the falsy values are undefined, null, false, 0 and "".
Truthy(x) ==
  CASE x.t \in {"undefined", "null"} -> FALSE
    [] x.t = "bool" -> x.v = "true"
    [] x.t = "num" -> x.v # "0"
    [] x.t = "str" ->
         IF IsJwe(x) THEN TRUE
         ELSE IF IsStrOf(x) THEN x.chars # [k |-> "raw", s |-> ""]
         ELSE x.v # ""
    [] OTHER -> TRUE

\* typeof x
TypeOf(x) ==
  CASE x.t = "undefined" -> "undefined"
    [] x.t = "bool" -> "boolean"
    [] x.t = "num" -> "number"
    [] x.t = "str" -> "string"
    [] OTHER -> "object"

\* a || b
Or(a, b) == IF Truthy(a) THEN a ELSE b

\* a && b
And(a, b) == IF Truthy(a) THEN b ELSE a

\* x.k throws a TypeError when x is null or undefined.
Throws(x) == x.t \in {"undefined", "null"}

\* x.k for a name k that only an own property of a plain object can hold;
\* primitives and arrays answer undefined.
Get(x, k) == IF x.t = "obj" /\ k \in DOMAIN x.f THEN x.f[k] ELSE Undefined

\* Object.keys(x).length for an object or an array
KeyCount(x) ==
  CASE x.t = "obj" -> Cardinality(DOMAIN x.f)
    [] x.t = "arr" -> x.n
    [] OTHER -> 0

(***************************************************************************)
(* Texts: request bodies on the wire, plaintexts, response bodies.  A text *)
(* is either the JSON serialisation of a value or a string of characters   *)
(* that is no JSON document.                                               *)
(***************************************************************************)
JsonText(x) == [k |-> "json", j |-> x]
RawText(s) == [k |-> "raw", s |-> s]
EmptyText == RawText("")

\* JSON.stringify(x) of a value that came out of JSON.parse
JSONStringify(x) == JsonText(x)

\* JSON.parse(text): the value, or a SyntaxError
JSONParse(text) ==
  IF text.k = "json" THEN [ok |-> TRUE, val |-> text.j]
  ELSE [ok |-> FALSE, val |-> Undefined]

\* raw || "{}"
RawOrEmptyObject(text) == IF text = EmptyText THEN JsonText(EmptyObj) ELSE text


(***************************************************************************)
(* Buffer.from(s).toString("base64")                                       *)
(***************************************************************************)
\* The character codes of the characters the handler encodes.
CharCode == [c \in {"o", "k"} |-> IF c = "o" THEN 111 ELSE 107]

\* Buffer.from(chars): the bytes of a sequence of characters
BufferFrom(chars) == [i \in 1..Len(chars) |-> CharCode[chars[i]]]

Base64Alphabet ==
  << "A", "B", "C", "D", "E", "F", "G", "H", "I", "J", "K", "L", "M",
     "N", "O", "P", "Q", "R", "S", "T", "U", "V", "W", "X", "Y", "Z",
     "a", "b", "c", "d", "e", "f", "g", "h", "i", "j", "k", "l", "m",
     "n", "o", "p", "q", "r", "s", "t", "u", "v", "w", "x", "y", "z",
     "0", "1", "2", "3", "4", "5", "6", "7", "8", "9", "+", "/" >>

Sextet(n, i) == Base64Alphabet[((n \div (64 ^ (3 - i))) % 64) + 1]

RECURSIVE ToBase64(_)
ToBase64(bytes) ==
  IF Len(bytes) = 0 THEN ""
  ELSE IF Len(bytes) = 1 THEN
    LET n == bytes[1] * 65536
    IN Sextet(n, 0) \o Sextet(n, 1) \o "=="
  ELSE IF Len(bytes) = 2 THEN
    LET n == bytes[1] * 65536 + bytes[2] * 256
    IN Sextet(n, 0) \o Sextet(n, 1) \o Sextet(n, 2) \o "="
  ELSE
    LET n == bytes[1] * 65536 + bytes[2] * 256 + bytes[3]
    IN Sextet(n, 0) \o Sextet(n, 1) \o Sextet(n, 2) \o Sextet(n, 3)
         \o ToBase64(SubSeq(bytes, 4, Len(bytes)))

(***************************************************************************)
(* node:crypto and jose                                                    *)
(***************************************************************************)
\* createPrivateKey(pem): the key a PEM text encodes, or an error when the
\* text is no PEM key.
CreatePrivateKey(pem) ==
  IF pem = "PEM-K1" THEN [ok |-> TRUE, key |-> "K1"]
  ELSE [ok |-> FALSE, key |-> ""]

\* compactDecrypt(jwe, key) followed by TextDecoder.decode: the plaintext,
\* or an error when jwe is no compact JWE, was encrypted for another key, or
\* fails authentication.
CompactDecrypt(jwe, key) ==
  IF IsJwe(jwe) /\ jwe.jwe.key = key /\ jwe.jwe.tag
  THEN [ok |-> TRUE, text |-> jwe.jwe.pt]
  ELSE [ok |-> FALSE, text |-> EmptyText]

(***************************************************************************)
(* The requests and the configuration the handlers are run on.             *)
(***************************************************************************)
\* The most fields a request body object holds.
MaxKeys == 2

Payload(screen) == Obj("screen" :> Str(screen))

\* Tokens sent as encrypted_flow_data: encrypted for the configured key with
\* a plaintext that is a JSON object, a falsy JSON value or no JSON at all;
\* tampered with; encrypted for another key; and a string that is no JWE.
Envelopes ==
  { Jwe("K1", JsonText(Payload("A")), TRUE),
    Jwe("K1", JsonText(Null), TRUE),
    Jwe("K1", JsonText(Bool(FALSE)), TRUE),
    Jwe("K1", JsonText(Num("0")), TRUE),
    Jwe("K1", JsonText(Str("")), TRUE),
    Jwe("K1", RawText("{oops"), TRUE),
    Jwe("K1", JsonText(Payload("A")), FALSE),
    Jwe("K2", JsonText(Payload("A")), TRUE),
    Str("not.a.jwe") }

Keys ==
  { "challenge", "health_check", "type", "encrypted_flow_data",
    "encrypted_flow_data_v2", "data" }

\* The values a body holds under each field.
FieldValues(k) ==
  CASE k = "challenge" ->
         { Str("c0de"), Str(""), Num("7"), Num("0"), Bool(TRUE), Bool(FALSE),
           Null, Payload("V"), Arr(1) }
    [] k = "health_check" -> { Bool(TRUE), Str("true") }
    [] k = "type" -> { Str("health_check"), Str("other") }
    [] k = "encrypted_flow_data" -> { Str("") } \cup Envelopes
    [] k = "encrypted_flow_data_v2" ->
         { Str(""), Jwe("K1", JsonText(Payload("B")), TRUE) }
    [] k = "data" ->
         { Null,
           Obj("encrypted_flow_data" :> Str("")),
           Obj("encrypted_flow_data" :> Jwe("K1", JsonText(Payload("C")), TRUE)) }

AllFieldValues == UNION { FieldValues(k) : k \in Keys }

\* The JSON objects with at most MaxKeys of the fields the handlers look at.
Bodies ==
  UNION { { Obj(f) : f \in { g \in [S -> AllFieldValues] :
                              \A k \in S : g[k] \in FieldValues(k) } } :
          S \in { T \in SUBSET Keys : Cardinality(T) <= MaxKeys } }

\* JSON documents that are not objects.
NonObjects == { Null, Num("7"), Num("0"), Str("text"), Bool(TRUE), Arr(0), Arr(1) }

\* What the request stream carries: a JSON document, text that is no JSON,
\* or nothing.
RawBodies ==
  { JsonText(x) : x \in Bodies \cup NonObjects } \cup { RawText("{oops"), EmptyText }

Handlers == { "api/flow.js", "part_000" }

Methods == { "GET", "POST", "PUT" }

\* A request: the route it is sent to, its method, its x-meta-health-check
\* header ("" when the header is absent), the bytes of its body, what the
\* transport has put in req.body before the handler runs (nothing, the parsed
\* JSON document, or the body as a string), and whether the transport has
\* read the body stream to its end by then.
Requests ==
  [ handler : Handlers, method : Methods, health : { "", "1", "true" },
    raw : RawBodies, parsed : { "no", "json", "text" }, ended : BOOLEAN ]

\* process.env: FLOW_PRIVATE_PEM and MAKE_WEBHOOK_URL ("" when not set).
Envs == [ pem : { "", "PEM-K1", "not a pem" }, url : { "", "https://hook" } ]

\* req.body: the parsed JSON document when the transport parsed one, the
\* body as a string when it handed the text over, undefined otherwise.
ReqBody(q) ==
  CASE q.parsed = "json" /\ JSONParse(q.raw).ok -> JSONParse(q.raw).val
    [] q.parsed = "text" -> StrOf(q.raw)
    [] OTHER -> Undefined

(***************************************************************************)
(* One run of handler(req, res).  Its state: where it is suspended (pc),   *)
(* its locals body, jwe, privateKey and decrypted, and what it has done so *)
(* far: the responses written to res, the outbound fetch calls, the        *)
(* console.error lines, the listeners put on the body stream and the       *)
(* tokens handed to compactDecrypt.                                        *)
(***************************************************************************)
NewRun ==
  [ pc |-> "start", body |-> Undefined, jwe |-> Undefined, key |-> "",
    decrypted |-> Null, resp |-> << >>, out |-> << >>, log |-> << >>,
    reads |-> 0, decrypts |-> << >>, fetched |-> "" ]

\* res.setHeader("Content-Type", type) when type is not "", then
\* res.status(status).send(text) or .end(), and return.
Respond(s, status, type, text) ==
  [ s EXCEPT !.pc = "done",
             !.resp = Append(@, [status |-> status, type |-> type, body |-> text]) ]

\* res.status(200).end()
End200(s) == Respond(s, 200, "", EmptyText)

\* ok(res, body) of api/flow.js
ok(s, x) ==
  IF x = Null THEN End200(s)
  ELSE Respond(s, 200, "application/json", JSONStringify(x))

\* okJson(res, bodyObj) of part_000
okJson(s, x) == Respond(s, 200, "application/json", JSONStringify(x))

\* Mutant of HandlerError: the catch answers 500.
HandlerErrorAnswers500(s) ==
  Respond([s EXCEPT !.log = Append(@, "Handler error")], 500, "", EmptyText)

\* The catch of the handler's outer try.
HandlerError(s) == End200([s EXCEPT !.log = Append(@, "Handler error")])

\* Mutant of Ack: a relay call that did not get a 2xx is reported to the
\* caller as a 502.
AckReportsRelayFailure(s, q) ==
  IF s.fetched \in {"5xx", "rejected"} THEN Respond(s, 502, "", EmptyText)
  ELSE End200(s)

\* Mutant of Ack: a decrypted payload is echoed to the caller.
AckEchoesDecrypted(s, q) ==
  IF s.decrypted # Null THEN okJson(s, s.decrypted) ELSE End200(s)

\* The last statement of the try: return ok(res) / return res.status(200).end()
Ack(s, q) == IF q.handler = "api/flow.js" THEN ok(s, Null) ELSE End200(s)

\* Mutant of Forward: without a decrypted payload the envelope is forwarded
\* in place of the body.
ForwardEnvelope(s, q, e) ==
  IF e.url # ""
  THEN [ s EXCEPT !.pc = "fetching",
                  !.out = Append(@, [ url |-> e.url, method |-> "POST",
                                      type |-> "application/json",
                                      body |-> JSONStringify(Or(s.decrypted,
                                                                Or(s.jwe, s.body))) ]) ]
  ELSE IF q.handler = "api/flow.js" THEN ok(s, Null) ELSE End200(s)

\* Mutant of Forward: fetch is called but not awaited, so the handler
\* acknowledges while the call is still pending.
ForwardNoAwait(s, q, e) ==
  IF e.url # ""
  THEN Ack([ s EXCEPT !.out = Append(@, [ url |-> e.url, method |-> "POST",
                                          type |-> "application/json",
                                          body |-> JSONStringify(Or(s.decrypted, s.body)) ]) ],
           q)
  ELSE Ack(s, q)

\* Forward: when MAKE_WEBHOOK_URL is set, call fetch with the serialised
\* payload and await it; otherwise acknowledge.
Forward(s, q, e) ==
  IF e.url # ""
  THEN [ s EXCEPT !.pc = "fetching",
                  !.out = Append(@, [ url |-> e.url, method |-> "POST",
                                      type |-> "application/json",
                                      body |-> JSONStringify(Or(s.decrypted, s.body)) ]) ]
  ELSE Ack(s, q)

\* Mutant of PickJwe: encrypted_flow_data_v2 is looked at first.
PickJweV2First(body) ==
  Or(Or(Or(Get(body, "encrypted_flow_data_v2"), Get(body, "encrypted_flow_data")),
        And(Get(body, "data"), Get(Get(body, "data"), "encrypted_flow_data"))),
     Null)

\* const jwe = body.encrypted_flow_data || body.encrypted_flow_data_v2 ||
\*             (body.data && body.data.encrypted_flow_data) || null
PickJwe(body) ==
  Or(Or(Or(Get(body, "encrypted_flow_data"), Get(body, "encrypted_flow_data_v2")),
        And(Get(body, "data"), Get(Get(body, "data"), "encrypted_flow_data"))),
     Null)

\* Mutant of Live: the key is loaded whether or not FLOW_PRIVATE_PEM is set.
LiveAlwaysDecrypts(s, q, e) ==
  LET jwe == PickJwe(s.body)
      s1 == [s EXCEPT !.jwe = jwe]
  IN IF Truthy(jwe)
     THEN IF CreatePrivateKey(e.pem).ok
          THEN [ s1 EXCEPT !.pc = "decrypting",
                           !.key = CreatePrivateKey(e.pem).key,
                           !.decrypts = Append(@, jwe) ]
          ELSE Forward([s1 EXCEPT !.log = Append(@, "Flow decryption error")], q, e)
     ELSE Forward(s1, q, e)

\* Live traffic: pick the envelope and, when there is one and a key is
\* configured, load the key and await compactDecrypt; then forward.
Live(s, q, e) ==
  LET jwe == PickJwe(s.body)
      s1 == [s EXCEPT !.jwe = jwe]
  IN IF Truthy(jwe) /\ e.pem # ""
     THEN IF CreatePrivateKey(e.pem).ok
          THEN [ s1 EXCEPT !.pc = "decrypting",
                           !.key = CreatePrivateKey(e.pem).key,
                           !.decrypts = Append(@, jwe) ]
          ELSE Forward([s1 EXCEPT !.log = Append(@, "Flow decryption error")], q, e)
     ELSE Forward(s1, q, e)

\* const isHealthCheck = ... of part_000
IsHealthCheck(body, q) ==
  \/ Get(body, "health_check") = Bool(TRUE)
  \/ Get(body, "type") = Str("health_check")
  \/ q.health = "1"

\* Buffer.from("ok").toString("base64")
HealthBody == RawText(ToBase64(BufferFrom(<< "o", "k" >>)))

\* api/flow.js from the challenge test on.
ClassifyFlow(s, q, e) ==
  IF Truthy(And(s.body, Get(s.body, "challenge")))
  THEN ok(s, Obj("challenge" :> Get(s.body, "challenge")))
  ELSE IF Throws(s.body) THEN HandlerError(s)
  ELSE Live(s, q, e)

\* Mutant of ClassifyPart: the health check is tested before the challenge.
ClassifyPartHealthFirst(s, q, e) ==
  IF Throws(s.body) THEN HandlerError(s)
  ELSE IF IsHealthCheck(s.body, q)
  THEN Respond(s, 200, "text/plain", HealthBody)
  ELSE IF Truthy(Get(s.body, "challenge"))
  THEN okJson(s, Obj("challenge" :> Get(s.body, "challenge")))
  ELSE Live(s, q, e)

\* part_000 from the challenge test on.
ClassifyPart(s, q, e) ==
  IF Throws(s.body) THEN HandlerError(s)
  ELSE IF Truthy(Get(s.body, "challenge"))
  THEN okJson(s, Obj("challenge" :> Get(s.body, "challenge")))
  ELSE IF IsHealthCheck(s.body, q)
  THEN Respond(s, 200, "text/plain", HealthBody)
  ELSE Live(s, q, e)

Classify(s, q, e) ==
  IF q.handler = "api/flow.js" THEN ClassifyFlow(s, q, e) ELSE ClassifyPart(s, q, e)

\* let body = req.body || {}   (api/flow.js)
FlowBody(q) == Or(ReqBody(q), EmptyObj)

\* if (!body || typeof body !== "object")   (api/flow.js)
FlowReadsStream(body) == ~Truthy(body) \/ TypeOf(body) # "object"

\* let body = req.body && typeof req.body === "object" ? req.body : {}   (part_000)
PartBody(q) ==
  IF Truthy(ReqBody(q)) /\ TypeOf(ReqBody(q)) = "object" THEN ReqBody(q) ELSE EmptyObj

\* if (!Object.keys(body).length)   (part_000)
PartReadsStream(body) == KeyCount(body) = 0

\* try { body = JSON.parse(raw || "{}"); } catch { body = {}; }
ParseRaw(raw) ==
  IF JSONParse(RawOrEmptyObject(raw)).ok THEN JSONParse(RawOrEmptyObject(raw)).val
  ELSE EmptyObj

\* The body the handler starts from, and whether it reads the stream.
FirstBody(q) == IF q.handler = "api/flow.js" THEN FlowBody(q) ELSE PartBody(q)

ReadsStream(q) ==
  IF q.handler = "api/flow.js" THEN FlowReadsStream(FirstBody(q))
  ELSE PartReadsStream(FirstBody(q))

\* Mutant of Begin: GET is not singled out, so it gets the 405 of the other
\* methods.
BeginWithoutGet(s, q, e) ==
  IF q.method # "POST"
  THEN Respond(s, 405, "", RawText("Method Not Allowed"))
  ELSE IF ReadsStream(q)
  THEN [s EXCEPT !.pc = "reading", !.body = FirstBody(q), !.reads = @ + 1]
  ELSE Classify([s EXCEPT !.body = FirstBody(q)], q, e)

\* Mutant of Begin: the 405 test is missing, so every method but GET is
\* processed as a POST.
BeginWithout405(s, q, e) ==
  IF q.method = "GET"
  THEN IF q.handler = "api/flow.js" THEN ok(s, Obj("status" :> Str("ok")))
       ELSE okJson(s, Obj("status" :> Str("ok")))
  ELSE IF ReadsStream(q)
  THEN [s EXCEPT !.pc = "reading", !.body = FirstBody(q), !.reads = @ + 1]
  ELSE Classify([s EXCEPT !.body = FirstBody(q)], q, e)

\* The handler from its call to its first await or its return.
Begin(s, q, e) ==
  IF q.method = "GET"
  THEN IF q.handler = "api/flow.js" THEN ok(s, Obj("status" :> Str("ok")))
       ELSE okJson(s, Obj("status" :> Str("ok")))
  ELSE IF q.method # "POST"
  THEN Respond(s, 405, "", RawText("Method Not Allowed"))
  ELSE IF ReadsStream(q)
  THEN [s EXCEPT !.pc = "reading", !.body = FirstBody(q), !.reads = @ + 1]
  ELSE Classify([s EXCEPT !.body = FirstBody(q)], q, e)

\* What fetch can do: resolve with a 2xx or another status, or reject.
FetchOutcomes == { "2xx", "5xx", "rejected" }

\* The handler from the end of the stream to its next await or its return:
\* the raw text is parsed and the request classified.
AfterRead(s, q, e) == Classify([s EXCEPT !.body = ParseRaw(q.raw)], q, e)

\* The handler from the settling of compactDecrypt to its next await or its
\* return: the plaintext is decoded and parsed, or the catch logs the error.
AfterDecrypt(s, q, e) ==
  LET d == CompactDecrypt(s.jwe, s.key)
      p == JSONParse(d.text)
  IN IF d.ok /\ p.ok
     THEN Forward([s EXCEPT !.decrypted = p.val], q, e)
     ELSE Forward([s EXCEPT !.log = Append(@, "Flow decryption error")], q, e)

\* The handler from the settling of fetch with outcome o to its return.
AfterFetch(s, q, o) ==
  Ack([s EXCEPT !.fetched = o,
                !.log = IF o = "rejected" THEN Append(@, "Forward failed") ELSE @],
      q)

(***************************************************************************)
(* Actions                                                                 *)
(***************************************************************************)
\* The platform calls handler(req, res).
Start(r) ==
  /\ h[r].pc = "start"
  /\ h' = [h EXCEPT ![r] = Begin(h[r], req[r], env)]
  /\ UNCHANGED <<req, env>>

\* The body stream emits its data and then "end"; a stream that the transport
\* has already read to its end emits nothing more.
StreamEnd(r) ==
  /\ h[r].pc = "reading"
  /\ ~req[r].ended
  /\ h' = [h EXCEPT ![r] = AfterRead(h[r], req[r], env)]
  /\ UNCHANGED <<req, env>>

\* Mutant of DecryptSettle: the token is kept in a variable that all runs
\* share, so a run decrypts the token of whichever run is decrypting.
DecryptSettleSharedToken(r) ==
  /\ h[r].pc = "decrypting"
  /\ \E r2 \in DOMAIN h :
       /\ h[r2].pc = "decrypting"
       /\ h' = [h EXCEPT ![r] = AfterDecrypt([h[r] EXCEPT !.jwe = h[r2].jwe],
                                             req[r], env)]
  /\ UNCHANGED <<req, env>>

\* compactDecrypt settles: the plaintext is decoded and parsed, or the catch
\* logs the error; then the handler forwards.
DecryptSettle(r) ==
  /\ h[r].pc = "decrypting"
  /\ h' = [h EXCEPT ![r] = AfterDecrypt(h[r], req[r], env)]
  /\ UNCHANGED <<req, env>>

\* fetch settles: a rejection is logged; the handler acknowledges.
FetchSettle(r) ==
  /\ h[r].pc = "fetching"
  /\ \E o \in FetchOutcomes : h' = [h EXCEPT ![r] = AfterFetch(h[r], req[r], o)]
  /\ UNCHANGED <<req, env>>

\* The requests in flight.
Clients == { "r1" }

Init ==
  /\ req \in [Clients -> Requests]
  /\ env \in Envs
  /\ h = [r \in Clients |-> NewRun]

Next ==
  \E r \in Clients :
    \/ Start(r)
    \/ StreamEnd(r)
    \/ DecryptSettle(r)
    \/ FetchSettle(r)

Spec == Init /\ [][Next]_vars

(***************************************************************************)
(* Two requests in flight at once, their handler runs interleaved at the   *)
(* awaits.                                                                 *)
(***************************************************************************)
Pair == { "r1", "r2" }

PairBodies ==
  { JsonText(Obj("encrypted_flow_data" :> Jwe("K1", JsonText(Payload("A")), TRUE))),
    JsonText(Obj("encrypted_flow_data" :> Jwe("K1", JsonText(Payload("A")), FALSE))),
    JsonText(Obj("challenge" :> Str("c0de"))),
    JsonText(Obj("health_check" :> Bool(TRUE))),
    JsonText(Null),
    EmptyText }

PairRequests ==
  [ handler : Handlers, method : { "GET", "POST" }, health : { "" },
    raw : PairBodies, parsed : { "no", "json" }, ended : BOOLEAN ]

InitPair ==
  /\ req \in [Pair -> PairRequests]
  /\ env \in Envs
  /\ h = [r \in Pair |-> NewRun]

NextPair ==
  \E r \in Pair :
    \/ Start(r)
    \/ StreamEnd(r)
    \/ DecryptSettle(r)
    \/ FetchSettle(r)

SpecPair == InitPair /\ [][NextPair]_vars

(***************************************************************************)
(* Vocabulary of the properties.  These read a finished run against the    *)
(* request it was given; they are not part of the handlers.                *)
(***************************************************************************)
Response(status, type, text) == [status |-> status, type |-> type, body |-> text]

EmptyOk == Response(200, "", EmptyText)

Done(r) == h[r].pc = "done"

IsPost(r) == req[r].method = "POST"

\* The field k of a body, undefined when the body is no object or lacks it.
Field(body, k) == IF body.t = "obj" /\ k \in DOMAIN body.f THEN body.f[k] ELSE Undefined

HasField(body, k) == body.t = "obj" /\ k \in DOMAIN body.f

\* The health-check predicate of the specification.
HealthSignal(r) ==
  \/ Field(h[r].body, "health_check") = Bool(TRUE)
  \/ Field(h[r].body, "type") = Str("health_check")
  \/ req[r].health = "1"

\* The envelope candidates of a body in their fixed order.
Candidates(body) ==
  << Field(body, "encrypted_flow_data"),
     Field(body, "encrypted_flow_data_v2"),
     Field(Field(body, "data"), "encrypted_flow_data") >>

\* A candidate that is present and not empty.
NonEmpty(x) == x.t = "str" /\ x # Str("")

HasEnvelope(body) == \E i \in 1..3 : NonEmpty(Candidates(body)[i])

\* The first candidate that is present and not empty.
FirstEnvelope(body) ==
  Candidates(body)[CHOOSE i \in 1..3 :
                     /\ NonEmpty(Candidates(body)[i])
                     /\ \A j \in 1..(i - 1) : ~NonEmpty(Candidates(body)[j])]

\* Whether token x, decrypted under the configured PEM, yields a JSON text.
DecryptsToJson(x) ==
  /\ env.pem = "PEM-K1"
  /\ "jwe" \in DOMAIN x
  /\ x.jwe.key = "K1"
  /\ x.jwe.tag
  /\ x.jwe.pt.k = "json"

\* The run was classified as an encrypted event: it searched the body for
\* an envelope and found one.
EncryptedEvent(r) == h[r].jwe.t = "str"

\* The run was classified as a plain event: it searched the body for an
\* envelope and found none.
PlainEvent(r) == h[r].jwe = Null

\* Every outbound call of the run carries this value, and there is exactly
\* one call when a destination is configured and none otherwise.
Relayed(r, x) ==
  /\ Len(h[r].out) = (IF env.url = "" THEN 0 ELSE 1)
  /\ \A i \in 1..Len(h[r].out) :
       h[r].out[i] = [ url |-> env.url, method |-> "POST",
                       type |-> "application/json", body |-> JsonText(x) ]

(***************************************************************************)
(* C1                                                                      *)
(***************************************************************************)
\* The answer to a challenge V.
ChallengeAnswer(v) ==
  Response(200, "application/json", JsonText(Obj("challenge" :> v)))

\* C1 as stated: every finished POST run whose parsed body holds a challenge
\* field, whatever its value V (falsy values included), answered 200 with the
\* JSON object {"challenge": V} and neither decrypted nor relayed.
C1_EchoesAnyChallenge ==
  \A r \in Clients :
    (Done(r) /\ IsPost(r) /\ HasField(h[r].body, "challenge")) =>
      /\ h[r].resp = << ChallengeAnswer(Field(h[r].body, "challenge")) >>
      /\ h[r].decrypts = << >>
      /\ h[r].out = << >>

\* C1 amended: every finished POST run whose parsed body holds a truthy
\* challenge V answered 200 with the JSON object {"challenge": V}, V unchanged,
\* and neither decrypted nor relayed.
C1_EchoesTruthyChallenge ==
  \A r \in Clients :
    (Done(r) /\ IsPost(r) /\ Truthy(Field(h[r].body, "challenge"))) =>
      /\ h[r].resp = << ChallengeAnswer(Field(h[r].body, "challenge")) >>
      /\ h[r].decrypts = << >>
      /\ h[r].out = << >>

\* A challenge that is a JSON object was answered although the body also held
\* an envelope and both the key and the destination were configured.
C1_Witness ==
  \E r \in Clients :
    /\ Done(r) /\ IsPost(r)
    /\ Field(h[r].body, "challenge") = Payload("V")
    /\ HasEnvelope(h[r].body)
    /\ env.pem = "PEM-K1" /\ env.url # ""
    /\ h[r].resp = << ChallengeAnswer(Payload("V")) >>

(***************************************************************************)
(* C2                                                                      *)
(***************************************************************************)
\* C2: every finished POST run that satisfies the health-check predicate
\* (health_check is true, type is "health_check", or the header
\* x-meta-health-check is "1") answered 200, text/plain, body "b2s=".
C2_HealthCheckAnswered ==
  \A r \in Clients :
    (Done(r) /\ IsPost(r) /\ HealthSignal(r)) =>
      h[r].resp = << Response(200, "text/plain", RawText("b2s=")) >>

(***************************************************************************)
(* C3                                                                      *)
(***************************************************************************)
\* C3: every finished encrypted-event run whose envelope decrypts under the
\* configured key to a JSON value P (falsy values included) made its one
\* relay call with exactly P and answered 200 with an empty body.
C3_RelaysDecryptedValue ==
  \A r \in Clients :
    (Done(r) /\ IsPost(r) /\ EncryptedEvent(r) /\ DecryptsToJson(h[r].jwe)) =>
      /\ Relayed(r, h[r].jwe.jwe.pt.j)
      /\ h[r].resp = << EmptyOk >>

(***************************************************************************)
(* C4                                                                      *)
(***************************************************************************)
\* C4: every finished run that found an envelope in its body and either had
\* no key configured or could not decrypt the envelope (the key did not load,
\* the token is malformed, was made for another key, fails authentication,
\* or its plaintext is no JSON) relayed the original parsed body unmodified
\* and answered 200 with an empty body.
C4_FallsBackToBody ==
  \A r \in Clients :
    (Done(r) /\ IsPost(r) /\ EncryptedEvent(r) /\ ~DecryptsToJson(h[r].jwe)) =>
      /\ Relayed(r, h[r].body)
      /\ h[r].resp = << EmptyOk >>

\* A tampered envelope was met with the key and the destination configured:
\* the error was logged, the body was relayed, the answer is 200 and empty.
C4_Witness ==
  \E r \in Clients :
    /\ Done(r) /\ EncryptedEvent(r)
    /\ env.pem = "PEM-K1" /\ env.url # ""
    /\ h[r].jwe = Jwe("K1", JsonText(Payload("A")), FALSE)
    /\ h[r].log = << "Flow decryption error" >>
    /\ Len(h[r].out) = 1 /\ h[r].out[1].body = JsonText(h[r].body)
    /\ h[r].resp = << EmptyOk >>

(***************************************************************************)
(* C5                                                                      *)
(***************************************************************************)
\* C5: a run that made the outbound call has written no response while the
\* call is pending; once the call has settled, whether it resolved with a 2xx,
\* resolved with another status or rejected, the run has answered 200 with an
\* empty body, has made no second call, and did not end in the handler's
\* outer catch.
C5_RelayOutcomeContained ==
  \A r \in Clients :
    /\ h[r].pc = "fetching" => (h[r].resp = << >> /\ Len(h[r].out) = 1)
    /\ h[r].fetched # "" =>
         /\ Done(r)
         /\ h[r].resp = << EmptyOk >>
         /\ Len(h[r].out) = 1
         /\ \A i \in 1..Len(h[r].log) : h[r].log[i] # "Handler error"

\* The outbound call rejected and the run answered 200 with an empty body.
C5_Witness ==
  \E r \in Clients :
    /\ h[r].fetched = "rejected"
    /\ h[r].log # << >> /\ h[r].log[Len(h[r].log)] = "Forward failed"
    /\ h[r].resp = << EmptyOk >>

StatusOk == Response(200, "application/json", JsonText(Obj("status" :> Str("ok"))))

\* C7: a GET run goes from its start straight to its end, answers 200 with
\* the JSON object {"status":"ok"}, and has not read the body, searched it
\* for an envelope, decrypted or relayed.
C7_GetAnswersStatusOk ==
  \A r \in Clients :
    req[r].method = "GET" =>
      /\ h[r].pc \in {"start", "done"}
      /\ Done(r) => h[r].resp = << StatusOk >>
      /\ h[r].body = Undefined /\ h[r].jwe = Undefined
      /\ h[r].reads = 0 /\ h[r].decrypts = << >> /\ h[r].out = << >>

\* A GET whose body holds an envelope, with the key and the destination
\* configured, was answered with the status object.
C7_Witness ==
  \E r \in Clients :
    /\ req[r].method = "GET" /\ Done(r)
    /\ req[r].raw.k = "json" /\ HasEnvelope(req[r].raw.j)
    /\ env.pem = "PEM-K1" /\ env.url # ""
    /\ h[r].resp = << StatusOk >>

(***************************************************************************)
(* C8                                                                      *)
(***************************************************************************)
\* C8: a run whose method is neither GET nor POST goes from its start
\* straight to its end, answers 405 with the text "Method Not Allowed", and
\* has not read the body, tested it for a challenge or a health check,
\* searched it for an envelope, decrypted or relayed.
C8_OtherMethodsGet405 ==
  \A r \in Clients :
    req[r].method \notin {"GET", "POST"} =>
      /\ h[r].pc \in {"start", "done"}
      /\ Done(r) => h[r].resp = << Response(405, "", RawText("Method Not Allowed")) >>
      /\ h[r].body = Undefined /\ h[r].jwe = Undefined
      /\ h[r].reads = 0 /\ h[r].decrypts = << >> /\ h[r].out = << >>

\* A PUT whose body holds a truthy challenge and that carries the health-check
\* header was answered 405.
C8_Witness ==
  \E r \in Clients :
    /\ req[r].method = "PUT" /\ Done(r)
    /\ req[r].raw.k = "json" /\ Truthy(Field(req[r].raw.j, "challenge"))
    /\ req[r].health = "1"
    /\ h[r].resp[1].status = 405

(***************************************************************************)
(* C9                                                                      *)
(***************************************************************************)
\* C9: the envelope a run has chosen, and the only token it hands to
\* decryption, is the first of encrypted_flow_data, encrypted_flow_data_v2
\* and data.encrypted_flow_data that is present and not empty.
C9_FirstEnvelopeWins ==
  \A r \in Clients :
    /\ EncryptedEvent(r) => (HasEnvelope(h[r].body) /\ h[r].jwe = FirstEnvelope(h[r].body))
    /\ Len(h[r].decrypts) <= 1
    /\ \A i \in 1..Len(h[r].decrypts) :
         HasEnvelope(h[r].body) /\ h[r].decrypts[i] = FirstEnvelope(h[r].body)

\* A body held two different non-empty candidates and the earlier one was
\* handed to decryption.
C9_Witness ==
  \E r \in Clients :
    /\ NonEmpty(Candidates(h[r].body)[1])
    /\ NonEmpty(Candidates(h[r].body)[2])
    /\ Candidates(h[r].body)[1] # Candidates(h[r].body)[2]
    /\ h[r].decrypts = << Candidates(h[r].body)[1] >>

(***************************************************************************)
(* C10                                                                     *)
(***************************************************************************)
\* C10: every finished POST run with a destination configured whose body is
\* neither a challenge nor a health check and holds no envelope made exactly
\* one outbound POST carrying the parsed body, which is a mapping, and
\* answered 200 with an empty body.
C10_PlainEventRelayed ==
  \A r \in Clients :
    ( /\ Done(r) /\ IsPost(r) /\ env.url # ""
      /\ ~Truthy(Field(h[r].body, "challenge"))
      /\ ~HealthSignal(r)
      /\ ~HasEnvelope(h[r].body) ) =>
      /\ h[r].body.t = "obj"
      /\ Relayed(r, h[r].body)
      /\ h[r].resp = << EmptyOk >>

(***************************************************************************)
(* C11                                                                     *)
(***************************************************************************)
\* A step of run r.
Step(r) == Start(r) \/ StreamEnd(r) \/ DecryptSettle(r) \/ FetchSettle(r)

\* C11: every run writes at most one response, has written exactly one when
\* it has finished, and, once called, can always go on until it has finished:
\* no run is left suspended with nothing more to happen, whichever way the
\* transport delivered the body.
C11_ExactlyOneResponse ==
  \A r \in Clients :
    /\ Len(h[r].resp) <= 1
    /\ Done(r) <=> Len(h[r].resp) = 1
    /\ h[r].pc \notin {"start", "done"} => ENABLED Step(r)

(***************************************************************************)
(* C12                                                                     *)
(***************************************************************************)
\* What a run in state s can become in one step when it is the only run.
AloneSteps(s, q, e) ==
  CASE s.pc = "start" -> { Begin(s, q, e) }
    [] s.pc = "reading" -> IF q.ended THEN {} ELSE { AfterRead(s, q, e) }
    [] s.pc = "decrypting" -> { AfterDecrypt(s, q, e) }
    [] s.pc = "fetching" -> { AfterFetch(s, q, o) : o \in FetchOutcomes }
    [] OTHER -> {}

\* The states a handler run on request q alone goes through.
RECURSIVE AloneFrom(_, _, _)
AloneFrom(S, q, e) ==
  LET T == S \cup UNION { AloneSteps(s, q, e) : s \in S }
  IN IF T = S THEN S ELSE AloneFrom(T, q, e)

Alone(q, e) == AloneFrom({ NewRun }, q, e)

\* C12: with two requests in flight, in every interleaving, the state of each
\* run (its locals, its decryption attempts, its outbound calls, its log, its
\* response) is a state the run goes through when its request is handled
\* alone: nothing one run does shows in the other.
C12_RunsAreIndependent ==
  \A r \in Pair : h[r] \in Alone(req[r], env)

\* Two requests carried the same envelope: each run made its own decryption
\* attempt and its own outbound call with the decrypted payload.
C12_Witness ==
  /\ req["r1"] = req["r2"]
  /\ \A r \in Pair :
       /\ Done(r)
       /\ h[r].decrypts = << Jwe("K1", JsonText(Payload("A")), TRUE) >>
       /\ Len(h[r].out) = 1
       /\ h[r].out[1].body = JsonText(Payload("A"))

(***************************************************************************)
(* C13                                                                     *)
(***************************************************************************)
\* The places of a run, in the order of the handler's text.
PcOrder == << "start", "reading", "decrypting", "fetching", "done" >>

Before(a, b) ==
  \E i, j \in DOMAIN PcOrder : PcOrder[i] = a /\ PcOrder[j] = b /\ i < j

\* What has happened in a run at each place: while the body is read nothing
\* is classified, decrypted, relayed or answered; while decryption is pending
\* nothing is relayed or answered; while the relay call is pending nothing is
\* answered.
PendingInOrder(s) ==
  /\ s.pc = "reading" =>
       s.jwe = Undefined /\ s.decrypts = << >> /\ s.out = << >> /\ s.resp = << >>
  /\ s.pc = "decrypting" =>
       Len(s.decrypts) = 1 /\ s.out = << >> /\ s.resp = << >>
  /\ s.pc = "fetching" => Len(s.out) = 1 /\ s.resp = << >>

\* One step of a run from a to b keeps the order: the run moves forward only;
\* a decryption starts only from the call (no body read) or from the end of
\* the body read, and is then pending; a relay call starts only before any
\* response and is then pending; the response is written only by the step
\* that finishes the run.
StepInOrder(a, b) ==
  /\ a.pc # b.pc => Before(a.pc, b.pc)
  /\ b.reads # a.reads => a.pc = "start" /\ b.pc = "reading"
  /\ b.decrypts # a.decrypts =>
       /\ b.pc = "decrypting"
       /\ \/ a.pc = "start" /\ b.reads = 0
          \/ a.pc = "reading"
  /\ b.out # a.out => b.pc = "fetching" /\ a.pc \in { "start", "reading", "decrypting" }
  /\ b.resp # a.resp => b.pc = "done" /\ a.pc # "done"

\* C13: in every run the steps happen in the order body read, classification,
\* decryption, relay, response: decryption never starts while the body is
\* being read, and the response is never written while the decryption or the
\* relay call is pending.
C13_StepsInOrder ==
  [][\A r \in Clients : PendingInOrder(h[r]) /\ PendingInOrder(h'[r])
                        /\ StepInOrder(h[r], h'[r])]_vars

\* A POST whose body was read from the stream and whose envelope was handed
\* to decryption is waiting for the relay call, with no response written.
C13_Witness ==
  \E r \in Clients :
    /\ IsPost(r)
    /\ h[r].pc = "fetching"
    /\ h[r].reads = 1
    /\ h[r].decrypts # << >>
    /\ h[r].resp = << >>

(***************************************************************************)
(* C14                                                                     *)
(***************************************************************************)
\* The request is of the handshake class: a GET, or a POST whose body holds a
\* truthy challenge or that satisfies the health-check predicate.
HandshakeClass(r) ==
  \/ req[r].method = "GET"
  \/ IsPost(r) /\ Truthy(Field(h[r].body, "challenge"))
  \/ IsPost(r) /\ HealthSignal(r)

\* C14: no run makes more than one outbound call, and a run on a request of
\* the handshake class makes none and never waits for the destination.
C14_HandshakeNeverRelays ==
  \A r \in Clients :
    /\ Len(h[r].out) <= 1
    /\ HandshakeClass(r) => h[r].out = << >> /\ h[r].pc # "fetching"

(***************************************************************************)
(* C15                                                                     *)
(***************************************************************************)
HealthAnswer == Response(200, "text/plain", RawText("b2s="))

\* The run has classified its request: it is past the body read.
Classified(r) == h[r].pc \notin { "start", "reading" }

\* The run answered from the handshake branch with x: it has finished without
\* searching for an envelope, decrypting or relaying.
AnsweredAtOnce(r, x) ==
  /\ Done(r)
  /\ h[r].resp = << x >>
  /\ h[r].jwe = Undefined
  /\ h[r].decrypts = << >>
  /\ h[r].out = << >>

\* C15: every POST run that has classified its request took the one outcome
\* the precedence gives it: the challenge answer when the body holds a truthy
\* challenge; otherwise the health answer when the request carries a
\* health-check signal (envelope or not); otherwise the encrypted-event path
\* when the body holds an envelope; otherwise the plain-event path.
C15_ClassifiedByPrecedence ==
  \A r \in Clients :
    (IsPost(r) /\ Classified(r)) =>
      IF Truthy(Field(h[r].body, "challenge"))
      THEN AnsweredAtOnce(r, ChallengeAnswer(Field(h[r].body, "challenge")))
      ELSE IF HealthSignal(r) THEN AnsweredAtOnce(r, HealthAnswer)
      ELSE IF HasEnvelope(h[r].body) THEN EncryptedEvent(r)
      ELSE PlainEvent(r)

(***************************************************************************)
(* C16                                                                     *)
(***************************************************************************)
\* C16: in every POST run that has gone past normalisation, whatever the raw
\* input and whatever the transport put in req.body, the body handed to
\* classification is a mapping (a JSON object, possibly empty).
C16_BodyIsMapping ==
  \A r \in Clients :
    (IsPost(r) /\ Classified(r)) => h[r].body.t = "obj"

(***************************************************************************)
(* C17                                                                     *)
(***************************************************************************)
\* The transport has already parsed a non-empty JSON object.
PreParsed(r) == ReqBody(req[r]).t = "obj" /\ ReqBody(req[r]).f # << >>

\* The raw stream holds a valid JSON object.
RawIsObject(r) == req[r].raw.k = "json" /\ req[r].raw.j.t = "obj"

\* C17: every POST run past its first step took its body from the source the
\* rule names: a non-empty object parsed by the transport is used as it is and
\* the stream is not read; in every other case the stream is read once, and
\* when it holds a valid JSON object the body handed to classification is
\* that object.
C17_BodySource ==
  \A r \in Clients :
    (IsPost(r) /\ h[r].pc # "start") =>
      IF PreParsed(r)
      THEN h[r].reads = 0 /\ h[r].body = ReqBody(req[r])
      ELSE /\ h[r].reads = 1
           /\ (Classified(r) /\ RawIsObject(r)) => h[r].body = req[r].raw.j

(***************************************************************************)
(* C18                                                                     *)
(***************************************************************************)
\* The run took the event path: it searched its body for an envelope.
EventRun(r) == EncryptedEvent(r) \/ PlainEvent(r)

\* No destination URL is configured: no outbound call is made or awaited, and
\* an event run, once any decryption has settled, has answered 200 with an
\* empty body.
NoUrlNoRelay(r) ==
  /\ h[r].out = << >>
  /\ h[r].pc # "fetching"
  /\ EventRun(r) => h[r].pc \in { "decrypting", "done" }
  /\ (EventRun(r) /\ Done(r)) => h[r].resp = << EmptyOk >>

\* No key is configured: nothing is handed to compactDecrypt, no decryption
\* error is logged, and every outbound call carries the body as it was parsed.
NoKeyNoDecryption(r) ==
  /\ h[r].decrypts = << >>
  /\ h[r].pc # "decrypting"
  /\ h[r].decrypted = Null
  /\ \A i \in DOMAIN h[r].log : h[r].log[i] # "Flow decryption error"
  /\ EventRun(r) => Relayed(r, h[r].body)

\* C18: a missing MAKE_WEBHOOK_URL switches the relay off and a missing
\* FLOW_PRIVATE_PEM switches decryption off, and neither fails the request.
C18_MissingConfigDisables ==
  \A r \in Clients :
    /\ env.url = "" => NoUrlNoRelay(r)
    /\ env.pem = "" => NoKeyNoDecryption(r)

\* Without a key, a request carrying an envelope was relayed as it came,
\* envelope included, and answered 200 with an empty body.
C18_Witness ==
  \E r \in Clients :
    /\ env.pem = "" /\ env.url # ""
    /\ Done(r) /\ EncryptedEvent(r)
    /\ HasEnvelope(h[r].body)
    /\ Len(h[r].out) = 1 /\ h[r].out[1].body = JsonText(h[r].body)
    /\ h[r].log = << >>
    /\ h[r].resp = << EmptyOk >>

(***************************************************************************)
(* C19                                                                     *)
(***************************************************************************)
\* The responses of the finished runs of the handler on request q alone,
\* over every configuration of the key and the destination and every outcome
\* of the relay call.
ResponsesTo(q) ==
  { s.resp : s \in { t \in UNION { Alone(q, e) : e \in Envs } : t.pc = "done" } }

\* C19: the response of a finished run is the response of every finished run
\* on the same request, whatever the key, the destination, the outcome of
\* decryption and the outcome of the relay call; and a run that loaded the
\* key or decrypted a payload answered with an empty body, so neither is in
\* the response.
C19_ResponseFromRequestOnly ==
  \A r \in Clients :
    Done(r) =>
      /\ ResponsesTo(req[r]) = { h[r].resp }
      /\ (h[r].key # "" \/ h[r].decrypted # Null) => h[r].resp = << EmptyOk >>

\* A run decrypted its envelope, its relay call was rejected, and its
\* response is the empty 200.
C19_Witness ==
  \E r \in Clients :
    /\ Done(r) /\ EncryptedEvent(r)
    /\ h[r].decrypted = Payload("A")
    /\ h[r].fetched = "rejected"
    /\ h[r].resp = << EmptyOk >>

=============================================================================
